---- MODULE Spec2Model ----
(***************************************************************************)
(* Model of pdf_to_lc_doc_api.converter.PDFConverter: the conversion of    *)
(* one PDF file into a LangChain Document (markdown content + metadata).   *)
(*                                                                         *)
(* A Python str is modelled as a sequence of text chunks (TLA+ strings);   *)
(* concatenation is \o, so formatting and joining are computed, chunk by   *)
(* chunk, the way the code computes them.  A list of keywords is a         *)
(* sequence of chunks as well.  A dict is a function from its keys.        *)
(***************************************************************************)
EXTENDS Integers, Sequences, FiniteSets, TLC

(***************************************************************************)
(* Bounds of the model.                                                    *)
(***************************************************************************)
\* the largest number of pages a PDF of the model has
MaxPages == 2

(***************************************************************************)
(* Python built-ins used by the converter.                                 *)
(***************************************************************************)
Whitespace == {" ", "\n", "\t"}

\* str.lstrip(): drop the leading whitespace characters
RECURSIVE LStrip(_)
LStrip(s) ==
    IF s = <<>> THEN <<>>
    ELSE IF Head(s) \in Whitespace THEN LStrip(Tail(s))
    ELSE s

\* str.rstrip(): drop the trailing whitespace characters
RECURSIVE RStrip(_)
RStrip(s) ==
    IF s = <<>> THEN <<>>
    ELSE IF s[Len(s)] \in Whitespace THEN RStrip(SubSeq(s, 1, Len(s) - 1))
    ELSE s

\* str.strip()
Strip(s) == RStrip(LStrip(s))

\* sep.join(list): the elements of the list with sep between neighbours
RECURSIVE Join(_, _)
Join(sep, list) ==
    IF list = <<>> THEN <<>>
    ELSE IF Len(list) = 1 THEN list[1]
    ELSE list[1] \o sep \o Join(sep, Tail(list))

\* str(n) of a non-negative integer: its decimal digits
Digits == <<"0", "1", "2", "3", "4", "5", "6", "7", "8", "9">>

RECURSIVE Str(_)
Str(n) ==
    IF n < 10 THEN <<Digits[n + 1]>>
    ELSE Str(n \div 10) \o <<Digits[(n % 10) + 1]>>

\* s.rfind("."): the 0-based index of the last dot, -1 when there is none
RECURSIVE RFindDot(_)
RFindDot(s) ==
    IF s = <<>> THEN -1
    ELSE IF s[Len(s)] = "." THEN Len(s) - 1
    ELSE RFindDot(SubSeq(s, 1, Len(s) - 1))

\* dict.update: the entries of m are written over those of d
Update(d, m) ==
    [k \in (DOMAIN d) \cup (DOMAIN m) |-> IF k \in DOMAIN m THEN m[k] ELSE d[k]]

\* the empty dict
EmptyDict == [k \in {} |-> <<>>]

\* set.update(list): the elements of a list, as a set
Elems(list) == {list[i] : i \in 1..Len(list)}

(***************************************************************************)
(* pathlib.Path: a path is a sequence of components, a component a         *)
(* sequence of characters.                                                 *)
(***************************************************************************)
\* Path(p).name: the final component
PathName(path) == path[Len(path)]

\* Path(p).stem: the final component without its last suffix
StemFirstDot(path) ==
    LET name == PathName(path)
        first == CHOOSE i \in 0..Len(name) :
                    /\ (i = Len(name) \/ name[i + 1] = ".")
                    /\ \A j \in 1..i : name[j] # "."
    IN IF 0 < first /\ first < Len(name) - 1
          THEN SubSeq(name, 1, first) ELSE name

Stem(path) ==
    LET name == PathName(path)
        i == RFindDot(name)
    IN IF 0 < i /\ i < Len(name) - 1 THEN SubSeq(name, 1, i) ELSE name

(***************************************************************************)
(* Exceptions and call outcomes.  The outcome of a call is a record: the   *)
(* value it returns, or the exception it raises (type and str(e)).         *)
(***************************************************************************)
Returned(v) == [raised |-> FALSE, value |-> v, type |-> "", msg |-> <<>>]

Raised(t, m) == [raised |-> TRUE, value |-> <<>>, type |-> t, msg |-> m]

NoError == [type |-> "", msg |-> <<>>]

(***************************************************************************)
(* The inputs of the model: paths, file states, caller metadata, pages and *)
(* the answers of the external service.                                    *)
(***************************************************************************)
\* the paths convert is called with
Paths ==
    { <<<<"a", ".", "pdf">>>>,
      <<<<"d">>, <<"a", ".", "txt">>>>,
      <<<<"b", ".", "c", ".", "pdf">>>> }

\* the byte contents a file may have
FileBytes == { <<37, 80>>, <<37, 81>> }

\* what is at a path when convert is called: nothing, or a file that is
\* unreadable, that is not a PDF, or that is a PDF
Missing == [exists |-> FALSE, kind |-> "missing", bytes |-> <<>>]

FileStates ==
    {Missing} \cup
    [exists : {TRUE}, kind : {"pdf"}, bytes : FileBytes] \cup
    {[exists |-> TRUE, kind |-> k, bytes |-> <<37, 80>>] : k \in {"garbage", "unreadable"}}

\* the metadata argument: None, the empty dict, or a dict; `given' tells
\* None (FALSE) from a dict
MetaNone == [given |-> FALSE, map |-> EmptyDict]

MetaDict(m) == [given |-> TRUE, map |-> m]

Metadatas ==
    { MetaNone,
      MetaDict(EmptyDict),
      MetaDict([k \in {"category", "title"} |->
                    IF k = "title" THEN <<"T">> ELSE <<"test">>]),
      MetaDict([k \in {"document_id", "document_summary", "keywords"} |->
                    IF k = "keywords" THEN <<"K">>
                    ELSE IF k = "document_id" THEN <<"X">> ELSE <<"S">>]) }

\* the raw text layer of a page: empty, whitespace only, or with text
RawTexts == { <<>>, <<" ", "\n">>, <<" ", "x", "\n">> }

\* a page object handed to _process_page: a fitz page, or None
NonePage == [isNone |-> TRUE, raw |-> <<>>]

Page(raw) == [isNone |-> FALSE, raw |-> raw]

\* the documents fitz.open may yield: up to MaxPages pages
RECURSIVE SeqsUpTo(_, _)
SeqsUpTo(S, n) ==
    IF n = 0 THEN {<<>>}
    ELSE LET shorter == SeqsUpTo(S, n - 1)
         IN shorter \cup {Append(s, x) : s \in {t \in shorter : Len(t) = n - 1}, x \in S}

Documents == SeqsUpTo(RawTexts, MaxPages)

\* what client.chat.completions.create does: it raises, or it returns a
\* completion whose message content is None, a str (JSON text), or a
\* mapping (a dict) with some of the fields
Content(shape, d) == Returned([shape |-> shape, dict |-> d])

PageDict(md, sm, kw) ==
    [k \in {"markdown_text", "summary", "keywords"} |->
        IF k = "markdown_text" THEN md ELSE IF k = "summary" THEN sm ELSE kw]

PageResponses ==
    { Raised("APIConnectionError", <<"Connection error.">>),
      Content("str", EmptyDict),
      Content("dict", PageDict(<<"# A">>, <<"sa">>, <<"k1", "k2">>)),
      Content("dict", PageDict(<<"B">>, <<"sb">>, <<"k2", "k3", "k4", "k5">>)) }

\* what happens in one _process_page call: the page does not render and the
\* service is never asked, or it renders and the service does one of the above
NotAsked == Raised("", <<>>)

PageOutcomes ==
    {[renders |-> FALSE, response |-> NotAsked]} \cup
    [renders : {TRUE}, response : PageResponses]

\* a direct call may also be answered by a mapping that lacks a field
IncompletePageResponse ==
    Content("dict", [k \in {"markdown_text", "summary"} |->
                        IF k = "summary" THEN <<"sa">> ELSE <<"# A">>])

DirectOutcomes ==
    PageOutcomes \cup {[renders |-> TRUE, response |-> IncompletePageResponse]}

SummaryDict(sm, kw) ==
    [k \in {"summary", "keywords"} |-> IF k = "summary" THEN sm ELSE kw]

SummaryResponses ==
    { Raised("APIConnectionError", <<"Connection error.">>),
      Content("none", EmptyDict),
      Content("dict", [k \in {"summary"} |-> <<"doc">>]),
      Content("dict", SummaryDict(<<"doc">>, <<"k1", "k3">>)) }

(***************************************************************************)
(* pydantic models.                                                        *)
(***************************************************************************)
\* Model(**content): content must be a mapping (TypeError otherwise) that
\* has every field of the model (ValidationError otherwise); other keys are
\* ignored
Construct(fields, content) ==
    IF content.shape # "dict"
      THEN Raised("TypeError",
                  <<"argument after ** must be a mapping, not ", content.shape>>)
    ELSE IF ~(fields \subseteq DOMAIN content.dict)
      THEN Raised("ValidationError", <<"Field required">>)
    ELSE Returned([k \in fields |-> content.dict[k]])

PageAnalysis(content) == Construct({"markdown_text", "summary", "keywords"}, content)

DocumentSummary(content) == Construct({"summary", "keywords"}, content)

(***************************************************************************)
(* PDFConverter: the class methods.                                        *)
(***************************************************************************)
\* hashlib.sha256(data).hexdigest(), abstracted: a digest computed from the
\* bytes alone, byte by byte, and printed in lowercase hexadecimal.  The
\* digest is narrower than SHA-256's 256 bits.
HexDigits == <<"0", "1", "2", "3", "4", "5", "6", "7",
               "8", "9", "a", "b", "c", "d", "e", "f">>

RECURSIVE Digest(_, _)
Digest(h, data) ==
    IF data = <<>> THEN h
    ELSE Digest((h * 31 + Head(data) + 1) % 65536, Tail(data))

RECURSIVE Hex(_, _)
Hex(n, width) ==
    IF width = 0 THEN <<>>
    ELSE Hex(n \div 16, width - 1) \o <<HexDigits[(n % 16) + 1]>>

HexDigest(data) == Hex(Digest(7, data), 4)

\* _calculate_file_hash: open(file_path, "rb") raises when the file cannot
\* be read; otherwise the digest of its bytes
_calculate_file_hash(f) ==
    IF ~f.exists
      THEN Raised("FileNotFoundError", <<"No such file or directory">>)
    ELSE IF f.kind = "unreadable"
      THEN Raised("PermissionError", <<"Permission denied">>)
    ELSE Returned(HexDigest(f.bytes))

\* _get_document_metadata with the identifier taken from the bytes and the path
_get_document_metadata_path_id(path, f) ==
    LET h == _calculate_file_hash(f)
    IN IF h.raised THEN h
       ELSE Returned([k \in {"title", "document_id"} |->
                        IF k = "title" THEN Stem(path)
                        ELSE HexDigest(f.bytes \o <<Len(path)>>)])

\* _get_document_metadata: {"title": Path(file_path).stem,
\*                          "document_id": _calculate_file_hash(file_path)}
_get_document_metadata(path, f) ==
    LET h == _calculate_file_hash(f)
    IN IF h.raised THEN h
       ELSE Returned([k \in {"title", "document_id"} |->
                        IF k = "title" THEN Stem(path) ELSE h.value])

\* _encode_page_image: page.get_pixmap(...).tobytes("png") in base64; any
\* exception (None has no get_pixmap; the page does not render) is raised
\* again as a ValueError
_encode_page_image(page, renders) ==
    IF page.isNone
      THEN Raised("ValueError",
                  <<"Error converting page to image: ",
                    "'NoneType' object has no attribute 'get_pixmap'">>)
    ELSE IF ~renders
      THEN Raised("ValueError",
                  <<"Error converting page to image: ", "cannot render page">>)
    ELSE Returned(<<"iVBOR">>)

\* _extract_page_text: page.get_text("text")
_extract_page_text(page) == page.raw

\* the PageAnalysis _process_page returns when anything fails
ErrorAnalysis(msg) ==
    [k \in {"markdown_text", "summary", "keywords"} |->
        IF k = "markdown_text" THEN <<>>
        ELSE IF k = "summary" THEN <<"Error processing page", ": ">> \o msg
        ELSE <<>>]

\* _process_page without its except clause: a failure leaves the method
_process_page_propagating(page, renders, response) ==
    LET image == _encode_page_image(page, renders)
        parsed == PageAnalysis(response.value)
    IN IF image.raised THEN image
       ELSE IF response.raised THEN response
       ELSE parsed

\* _process_page(page, client): render, call the service, parse; `renders'
\* and `response' are what the page and the service do in this call
_process_page(page, renders, response) ==
    LET image == _encode_page_image(page, renders)
        parsed == PageAnalysis(response.value)
    IN IF image.raised THEN Returned(ErrorAnalysis(image.msg))
       ELSE IF response.raised THEN Returned(ErrorAnalysis(response.msg))
       ELSE IF parsed.raised THEN Returned(ErrorAnalysis(parsed.msg))
       ELSE parsed

\* the DocumentSummary _generate_final_summary returns when anything fails
EmptySummary ==
    [k \in {"summary", "keywords"} |-> <<>>]

\* _generate_final_summary without its except clause
_generate_final_summary_propagating(response) ==
    IF response.raised THEN response ELSE DocumentSummary(response.value)

\* _generate_final_summary with an except clause like _process_page's, which
\* reports the failure in the summary text
_generate_final_summary_error_text(response) ==
    LET parsed == DocumentSummary(response.value)
        failed == [k \in {"summary", "keywords"} |->
                      IF k = "summary" THEN <<"Error generating summary">> ELSE <<>>]
    IN IF response.raised THEN Returned(failed)
       ELSE IF parsed.raised THEN Returned(failed)
       ELSE parsed

\* _generate_final_summary(page_summaries, all_keywords, client): call the
\* service, parse; `response' is what the service does in this call
_generate_final_summary(response) ==
    LET parsed == DocumentSummary(response.value)
    IN IF response.raised THEN Returned(EmptySummary)
       ELSE IF parsed.raised THEN Returned(EmptySummary)
       ELSE parsed

\* the user message of the summary request: the joined page summaries and
\* the collected keyword set
SummaryRequest(summaries_text, keywords) ==
    [page_summaries |-> summaries_text, all_keywords |-> keywords]

\* the line of a processed page, numbered from 0
SummaryLineFromZero(page_num, analysis) ==
    <<"Page ">> \o Str(page_num - 1) \o <<" Summary: ">> \o analysis["summary"]

\* the line _extract_text keeps for a processed page
SummaryLine(page_num, analysis) ==
    <<"Page ">> \o Str(page_num) \o <<" Summary: ">> \o analysis["summary"]

\* convert, lines 262-267: the summary and the keywords are added to the
\* base metadata, then a non-empty caller metadata is written over it
MergeKeepComputed(base, summary, keywords, metadata) ==
    LET computed == Update(base, [k \in {"document_summary", "keywords"} |->
                                    IF k = "keywords" THEN keywords ELSE summary])
    IN IF metadata.given /\ DOMAIN metadata.map # {}
          THEN Update(metadata.map, computed)
          ELSE computed

MergeMetadata(base, summary, keywords, metadata) ==
    LET computed == Update(base, [k \in {"document_summary", "keywords"} |->
                                    IF k = "keywords" THEN keywords ELSE summary])
    IN IF metadata.given /\ DOMAIN metadata.map # {}
          THEN Update(computed, metadata.map)
          ELSE computed

\* str(pdf_path)
PathStr(path) == Join(<<"/">>, path)

\* except Exception as e: raise ValueError(f"Error processing PDF: {str(e)}")
WrappedAsItself(exc) == [type |-> exc.type, msg |-> exc.msg]

Wrapped(exc) == [type |-> "ValueError", msg |-> <<"Error processing PDF: ">> \o exc.msg]

(***************************************************************************)
(* The state.                                                              *)
(***************************************************************************)
VARIABLES
    pc,                \* where the current convert call is
    pdf_path,          \* convert's argument
    metadata,          \* convert's argument
    file,              \* what is at pdf_path
    credential,        \* whether the service credential is configured
    doc_metadata,      \* convert's local
    client,            \* whether _extract_text has created its client
    doc,               \* the fitz document: whether it is open, its pages
    page_num,          \* the number of pages iterated so far
    markdown_sections, \* _extract_text's local
    page_summaries,    \* _extract_text's local
    all_keywords,      \* _extract_text's local
    final_summary,     \* _extract_text's local
    result,            \* the Document convert returned
    error,             \* the exception convert raised
    served,            \* per iterated page: whether it was analyzed, and the analysis
    request,           \* the summary requests sent to the service
    fileReads,         \* how often the file was read for hashing
    fileOpens,         \* how often the file was opened for page iteration
    analyzeCalls,      \* the _process_page calls of this convert
    summarizeCalls,    \* the _generate_final_summary calls of this convert
    direct,            \* the last direct _process_page call: its inputs and result
    direct_summary,    \* the last direct _generate_final_summary call, likewise
    prev               \* the previous convert call that returned

vars == <<pc, pdf_path, metadata, file, credential, doc_metadata, client, doc,
          page_num, markdown_sections, page_summaries, all_keywords,
          final_summary, result, error, served, request, fileReads, fileOpens,
          analyzeCalls, summarizeCalls, direct, direct_summary, prev>>

NoDoc == [open |-> FALSE, pages |-> <<>>]

NoResult == [returned |-> FALSE, page_content |-> <<>>, metadata |-> EmptyDict]

NoDirect == [called |-> FALSE, page |-> NonePage, renders |-> FALSE,
             response |-> Raised("", <<>>), outcome |-> Raised("", <<>>)]

NoDirectSummary == [called |-> FALSE, response |-> Raised("", <<>>),
                    outcome |-> Raised("", <<>>)]

NoPrev == [returned |-> FALSE, pdf_path |-> <<>>, bytes |-> <<>>,
           callerKeys |-> {}, document_id |-> <<>>, title |-> <<>>]

\* the locals of a convert call that has not run yet
Fresh ==
    /\ doc_metadata = EmptyDict
    /\ client = FALSE
    /\ doc = NoDoc
    /\ page_num = 0
    /\ markdown_sections = <<>>
    /\ page_summaries = <<>>
    /\ all_keywords = {}
    /\ final_summary = EmptySummary
    /\ result = NoResult
    /\ error = NoError
    /\ served = <<>>
    /\ request = <<>>
    /\ fileReads = 0
    /\ fileOpens = 0
    /\ analyzeCalls = 0
    /\ summarizeCalls = 0
    /\ direct = NoDirect
    /\ direct_summary = NoDirectSummary

Init ==
    /\ pc = "idle"
    /\ pdf_path = <<>>
    /\ metadata = MetaNone
    /\ file = Missing
    /\ credential = FALSE
    /\ Fresh
    /\ prev = NoPrev

(***************************************************************************)
(* convert(pdf_path, metadata), step by step.                              *)
(***************************************************************************)
\* what a returned call leaves for the next one to be compared with
Record ==
    [returned |-> TRUE, pdf_path |-> pdf_path, bytes |-> file.bytes,
     callerKeys |-> DOMAIN metadata.map,
     document_id |-> result.metadata["document_id"],
     title |-> result.metadata["title"]]

\* a caller calls convert: the arguments, and the environment it runs in.
\* The model follows the calls up to the second one that returns.
Convert ==
    /\ pc \in {"idle", "returned", "raised"}
    /\ ~prev.returned
    /\ \E p \in Paths, m \in Metadatas, f \in FileStates, c \in BOOLEAN :
          /\ pdf_path' = p
          /\ metadata' = m
          /\ file' = f
          /\ credential' = c
    /\ prev' = IF pc = "returned" THEN Record ELSE prev
    /\ pc' = "exists"
    /\ doc_metadata' = EmptyDict
    /\ client' = FALSE
    /\ doc' = NoDoc
    /\ page_num' = 0
    /\ markdown_sections' = <<>>
    /\ page_summaries' = <<>>
    /\ all_keywords' = {}
    /\ final_summary' = EmptySummary
    /\ result' = NoResult
    /\ error' = NoError
    /\ served' = <<>>
    /\ request' = <<>>
    /\ fileReads' = 0
    /\ fileOpens' = 0
    /\ analyzeCalls' = 0
    /\ summarizeCalls' = 0
    /\ direct' = NoDirect
    /\ direct_summary' = NoDirectSummary

\* line 251: pdf_path.exists()
ExistsAlways(f) == TRUE

Exists(f) == f.exists

\* lines 250-252: if not pdf_path.exists(): raise FileNotFoundError
CheckExists ==
    /\ pc = "exists"
    /\ IF ~Exists(file)
         THEN /\ pc' = "raised"
              /\ error' = [type |-> "FileNotFoundError",
                           msg |-> <<"PDF file not found: ">> \o PathStr(pdf_path)]
         ELSE /\ pc' = "metadata"
              /\ error' = error
    /\ UNCHANGED <<direct_summary, pdf_path, metadata, file, credential, doc_metadata, client,
                   doc, page_num, markdown_sections, page_summaries,
                   all_keywords, final_summary, result, served, request,
                   fileReads, fileOpens, analyzeCalls, summarizeCalls, direct,
                   prev>>

\* line 256: doc_metadata = cls._get_document_metadata(str(pdf_path))
GetDocumentMetadata ==
    /\ pc = "metadata"
    /\ fileReads' = fileReads + 1
    /\ LET m == _get_document_metadata(pdf_path, file)
       IN IF m.raised
            THEN /\ pc' = "raised"
                 /\ error' = Wrapped(m)
                 /\ doc_metadata' = doc_metadata
            ELSE /\ pc' = "client"
                 /\ error' = error
                 /\ doc_metadata' = m.value
    /\ UNCHANGED <<direct_summary, pdf_path, metadata, file, credential, client, doc, page_num,
                   markdown_sections, page_summaries, all_keywords,
                   final_summary, result, served, request, fileOpens,
                   analyzeCalls, summarizeCalls, direct, prev>>

\* line 202: client = OpenAI(), which raises without a credential
CreateClient ==
    /\ pc = "client"
    /\ IF ~credential
         THEN /\ pc' = "raised"
              /\ error' = Wrapped(Raised("OpenAIError",
                              <<"The api_key client option must be set">>))
              /\ client' = client
         ELSE /\ pc' = "open"
              /\ error' = error
              /\ client' = TRUE
    /\ UNCHANGED <<direct_summary, pdf_path, metadata, file, credential, doc_metadata, doc,
                   page_num, markdown_sections, page_summaries, all_keywords,
                   final_summary, result, served, request, fileReads,
                   fileOpens, analyzeCalls, summarizeCalls, direct, prev>>

\* line 207: with fitz.open(file_path) as doc, which raises on a file that
\* is not a PDF
OpenDocument ==
    /\ pc = "open"
    /\ fileOpens' = fileOpens + 1
    /\ IF file.kind # "pdf"
         THEN /\ pc' = "raised"
              /\ error' = Wrapped(Raised("FileDataError", <<"Failed to open file">>))
              /\ doc' = doc
         ELSE /\ pc' = "pages"
              /\ error' = error
              /\ \E pages \in Documents : doc' = [open |-> TRUE, pages |-> pages]
    /\ UNCHANGED <<direct_summary, pdf_path, metadata, file, credential, doc_metadata, client,
                   page_num, markdown_sections, page_summaries, all_keywords,
                   final_summary, result, served, request, fileReads,
                   analyzeCalls, summarizeCalls, direct, prev>>

\* line 211: if not raw_text.strip()
IsBlankUnstripped(raw_text) == raw_text = <<>>

IsBlank(raw_text) == Strip(raw_text) = <<>>

\* what `served' keeps for a page that was not analyzed
Skipped == [called |-> FALSE, renders |-> FALSE, response |-> NotAsked,
            analysis |-> ErrorAnalysis(<<>>)]

\* the page the loop of _extract_text is about to take
NextPage == Page(doc.pages[page_num + 1])

\* lines 208-212: the next page has no text: continue
SkipPage ==
    /\ pc = "pages"
    /\ page_num < Len(doc.pages)
    /\ IsBlank(_extract_page_text(NextPage))
    /\ page_num' = page_num + 1
    /\ served' = Append(served, Skipped)
    /\ UNCHANGED <<direct_summary, pc, pdf_path, metadata, file, credential, doc_metadata,
                   client, doc, markdown_sections, page_summaries,
                   all_keywords, final_summary, result, error, request,
                   fileReads, fileOpens, analyzeCalls, summarizeCalls, direct,
                   prev>>

\* lines 208-220: the next page has text: analyze it and collect the results
\* (an exception of _process_page would leave the with block and reach
\* convert's except clause)
ProcessPage ==
    /\ pc = "pages"
    /\ page_num < Len(doc.pages)
    /\ ~IsBlank(_extract_page_text(NextPage))
    /\ page_num' = page_num + 1
    /\ analyzeCalls' = analyzeCalls + 1
    /\ \E o \in PageOutcomes :
          LET a == _process_page(NextPage, o.renders, o.response)
          IN IF a.raised
               THEN /\ pc' = "raised"
                    /\ error' = Wrapped(a)
                    /\ doc' = [doc EXCEPT !.open = FALSE]
                    /\ UNCHANGED <<markdown_sections, page_summaries,
                                   all_keywords, served>>
               ELSE /\ pc' = pc
                    /\ error' = error
                    /\ doc' = doc
                    /\ markdown_sections' =
                          Append(markdown_sections, a.value["markdown_text"])
                    /\ page_summaries' =
                          Append(page_summaries, SummaryLine(page_num + 1, a.value))
                    /\ all_keywords' = all_keywords \cup Elems(a.value["keywords"])
                    /\ served' = Append(served,
                                      [called |-> TRUE, renders |-> o.renders,
                                       response |-> o.response, analysis |-> a.value])
    /\ UNCHANGED <<direct_summary, pdf_path, metadata, file, credential, doc_metadata, client,
                   final_summary, result, request, fileReads, fileOpens,
                   summarizeCalls, direct, prev>>

\* the final summary asked for inside the with block: the iteration is over
\* and the document stays open
CloseDocumentLate ==
    /\ pc = "pages"
    /\ page_num = Len(doc.pages)
    /\ pc' = "summarize"
    /\ UNCHANGED <<direct_summary, pdf_path, metadata, file, credential,
                   doc_metadata, client, doc, page_num, markdown_sections,
                   page_summaries, all_keywords, final_summary, result, error,
                   served, request, fileReads, fileOpens, analyzeCalls,
                   summarizeCalls, direct, prev>>

\* line 207, the end of the with block: the iteration is over and the
\* document is closed
CloseDocument ==
    /\ pc = "pages"
    /\ page_num = Len(doc.pages)
    /\ doc' = [doc EXCEPT !.open = FALSE]
    /\ pc' = "summarize"
    /\ UNCHANGED <<direct_summary, pdf_path, metadata, file, credential, doc_metadata, client,
                   page_num, markdown_sections, page_summaries, all_keywords,
                   final_summary, result, error, served, request, fileReads,
                   fileOpens, analyzeCalls, summarizeCalls, direct, prev>>

\* lines 223-232 and 262-269: the page summaries are joined and the final
\* summary is asked for; the sections are joined, the metadata merged and
\* the Document returned
GenerateFinalSummary ==
    /\ pc = "summarize"
    /\ summarizeCalls' = summarizeCalls + 1
    /\ request' = Append(request,
                     SummaryRequest(Join(<<"\n\n">>, page_summaries), all_keywords))
    /\ \E response \in SummaryResponses :
          LET s == _generate_final_summary(response)
          IN IF s.raised
               THEN /\ pc' = "raised"
                    /\ error' = Wrapped(s)
                    /\ UNCHANGED <<final_summary, doc_metadata, result>>
               ELSE /\ pc' = "returned"
                    /\ error' = error
                    /\ final_summary' = s.value
                    /\ doc_metadata' =
                          MergeMetadata(doc_metadata, s.value["summary"],
                                        s.value["keywords"], metadata)
                    /\ result' = [returned |-> TRUE,
                                  page_content |-> Join(<<"\n\n">>, markdown_sections),
                                  metadata |-> doc_metadata']
    /\ UNCHANGED <<direct_summary, pdf_path, metadata, file, credential, client, doc, page_num,
                   markdown_sections, page_summaries, all_keywords, served,
                   fileReads, fileOpens, analyzeCalls, direct, prev>>

\* _process_page called on its own, on a page or on None, before any
\* conversion (tests/test_process_page.py)
DirectProcessPage ==
    /\ pc = "idle"
    /\ \E page \in {NonePage} \cup {Page(r) : r \in RawTexts}, o \in DirectOutcomes :
          direct' = [called |-> TRUE, page |-> page, renders |-> o.renders,
                     response |-> o.response,
                     outcome |-> _process_page(page, o.renders, o.response)]
    /\ UNCHANGED <<direct_summary, pc, pdf_path, metadata, file, credential, doc_metadata,
                   client, doc, page_num, markdown_sections, page_summaries,
                   all_keywords, final_summary, result, error, served, request,
                   fileReads, fileOpens, analyzeCalls, summarizeCalls, prev>>

\* _generate_final_summary called on its own, before any conversion
\* (tests/test_pdf_converter_components.py)
DirectGenerateFinalSummary ==
    /\ pc = "idle"
    /\ \E response \in SummaryResponses :
          direct_summary' = [called |-> TRUE, response |-> response,
                             outcome |-> _generate_final_summary(response)]
    /\ UNCHANGED <<pc, pdf_path, metadata, file, credential, doc_metadata,
                   client, doc, page_num, markdown_sections, page_summaries,
                   all_keywords, final_summary, result, error, served, request,
                   fileReads, fileOpens, analyzeCalls, summarizeCalls, direct,
                   prev>>

Next ==
    \/ Convert
    \/ CheckExists
    \/ GetDocumentMetadata
    \/ CreateClient
    \/ OpenDocument
    \/ SkipPage
    \/ ProcessPage
    \/ CloseDocument
    \/ GenerateFinalSummary
    \/ DirectProcessPage
    \/ DirectGenerateFinalSummary

Spec == Init /\ [][Next]_vars

(***************************************************************************)
(* The properties.                                                         *)
(***************************************************************************)
\* the keys convert computes
ComputedKeys == {"title", "document_id", "document_summary", "keywords"}

\* a file name without its extension, stated on its own: the name up to its
\* last dot, when that dot is neither the first nor the last character
WithoutExtension(name) ==
    LET dots == {i \in 2..(Len(name) - 1) : name[i] = "."}
    IN IF dots = {} THEN name
       ELSE SubSeq(name, 1, (CHOOSE i \in dots : \A j \in dots : j <= i) - 1)

\* C1: convert on a path that does not exist fails with FileNotFoundError,
\* whatever the metadata and the credential, and before any service call:
\* no analyze call, no summarize call, no client, the file never touched.
C1_NotFoundBeforeAnyCall ==
    (~file.exists /\ pc \notin {"idle", "exists"}) =>
        /\ pc = "raised"
        /\ error.type = "FileNotFoundError"
        /\ ~result.returned
        /\ analyzeCalls = 0
        /\ summarizeCalls = 0
        /\ request = <<>>
        /\ ~client
        /\ fileReads = 0
        /\ fileOpens = 0

\* C1's case: a missing path, called with a metadata dict and with the
\* credential configured, has raised
C1_Witness ==
    /\ pc = "raised"
    /\ ~file.exists
    /\ metadata.given /\ DOMAIN metadata.map # {}
    /\ credential
    /\ error.type = "FileNotFoundError"

\* C2: in every returned record each caller-supplied key holds the caller's
\* value, computed keys included; the computed keys the caller did not name
\* hold their computed values.
C2_CallerKeysOverride ==
    pc = "returned" =>
        /\ \A k \in DOMAIN metadata.map : result.metadata[k] = metadata.map[k]
        /\ \A k \in ComputedKeys \ DOMAIN metadata.map :
              result.metadata[k] =
                 CASE k = "title" -> WithoutExtension(PathName(pdf_path))
                   [] k = "document_id" -> HexDigest(file.bytes)
                   [] k = "document_summary" -> final_summary["summary"]
                   [] k = "keywords" -> final_summary["keywords"]

\* C2's case: a returned record whose caller named a computed key, with a
\* value other than the computed one
C2_Witness ==
    /\ pc = "returned"
    /\ "document_id" \in DOMAIN metadata.map
    /\ metadata.map["document_id"] # HexDigest(file.bytes)
    /\ result.metadata["document_summary"] = <<"S">>
    /\ final_summary["summary"] = <<"doc">>

\* C3, as claimed: every returned record has a title, equal to the file name
\* without its extension, whatever the caller's metadata.
C3_TitleAlwaysStem ==
    pc = "returned" =>
        /\ "title" \in DOMAIN result.metadata
        /\ result.metadata["title"] = WithoutExtension(PathName(pdf_path))

\* C3, amended: every returned record has a title; it is the file name
\* without its extension unless the caller's metadata names title, and then
\* it is the caller's value.
C3_TitleStemUnlessCaller ==
    pc = "returned" =>
        /\ "title" \in DOMAIN result.metadata
        /\ result.metadata["title"] =
              IF "title" \in DOMAIN metadata.map
                THEN metadata.map["title"]
                ELSE WithoutExtension(PathName(pdf_path))

\* C3's case: a record returned for a file name with two dots, the caller
\* naming no title
C3_Witness ==
    /\ pc = "returned"
    /\ "title" \notin DOMAIN metadata.map
    /\ PathName(pdf_path) = <<"b", ".", "c", ".", "pdf">>
    /\ result.metadata["title"] = <<"b", ".", "c">>

\* C4, as claimed: two returned calls on files with the same bytes, neither
\* caller naming document_id, have the same document_id, whatever the paths
\* and the service's answers; and when the file names differ the titles
\* differ.
C4_SameIdDifferentTitle ==
    (/\ prev.returned
     /\ pc = "returned"
     /\ prev.bytes = file.bytes
     /\ "document_id" \notin prev.callerKeys \cup DOMAIN metadata.map) =>
        /\ result.metadata["document_id"] = prev.document_id
        /\ (PathName(prev.pdf_path) # PathName(pdf_path) =>
               result.metadata["title"] # prev.title)

\* C4, amended: two returned calls on files with the same bytes, neither
\* caller naming document_id, have the same document_id, whatever the paths
\* and the service's answers; and when the file names differ in more than
\* their extension and neither caller names title, the titles differ.
C4_SameIdTitleByStem ==
    (/\ prev.returned
     /\ pc = "returned"
     /\ prev.bytes = file.bytes
     /\ "document_id" \notin prev.callerKeys \cup DOMAIN metadata.map) =>
        /\ result.metadata["document_id"] = prev.document_id
        /\ (/\ WithoutExtension(PathName(prev.pdf_path)) #
                  WithoutExtension(PathName(pdf_path))
            /\ "title" \notin prev.callerKeys \cup DOMAIN metadata.map
            => result.metadata["title"] # prev.title)

\* C4's case: two returned calls on the same bytes under different names and
\* paths, without caller metadata, the second with a degraded page and a
\* failed summary; the identifiers agree and the titles differ
C4_Witness ==
    /\ prev.returned
    /\ pc = "returned"
    /\ prev.bytes = file.bytes
    /\ prev.callerKeys = {}
    /\ ~metadata.given
    /\ prev.pdf_path = <<<<"d">>, <<"a", ".", "txt">>>>
    /\ pdf_path = <<<<"b", ".", "c", ".", "pdf">>>>
    /\ \E i \in 1..Len(served) : served[i].called /\ ~served[i].renders
    /\ final_summary = EmptySummary
    /\ result.metadata["document_id"] = prev.document_id
    /\ result.metadata["title"] # prev.title

\* the _process_page calls made so far: the direct one and those of convert
ProcessPageCalls ==
    {[page |-> Page(doc.pages[i]), renders |-> served[i].renders,
      response |-> served[i].response, raised |-> FALSE,
      analysis |-> served[i].analysis] :
        i \in {j \in 1..Len(served) : served[j].called}}
    \cup
    (IF direct.called
       THEN {[page |-> direct.page, renders |-> direct.renders,
              response |-> direct.response, raised |-> direct.outcome.raised,
              analysis |-> direct.outcome.value]}
       ELSE {})

\* a call in which rendering, the service call or the parsing of the
\* response fails, stated on the inputs
Fails(c) ==
    \/ c.page.isNone
    \/ ~c.renders
    \/ c.response.raised
    \/ c.response.value.shape # "dict"
    \/ \E k \in {"markdown_text", "summary", "keywords"} :
          k \notin DOMAIN c.response.value.dict

\* the marker `sub' occurs in the text s
Contains(s, sub) ==
    \E i \in 1..(Len(s) - Len(sub) + 1) : SubSeq(s, i, i + Len(sub) - 1) = sub

\* C5: _process_page never raises; when the page is None, the rendering
\* fails, the service call fails or the response does not parse, it returns
\* a PageAnalysis with empty markdown_text, a non-empty summary that contains
\* 'Error processing page', and no keywords.
C5_ProcessPageNeverRaises ==
    \A c \in ProcessPageCalls :
        /\ ~c.raised
        /\ Fails(c) =>
              /\ c.analysis["markdown_text"] = <<>>
              /\ c.analysis["summary"] # <<>>
              /\ Contains(c.analysis["summary"], <<"Error processing page">>)
              /\ c.analysis["keywords"] = <<>>

\* C5's case: _process_page was called on None and returned the error
\* analysis
C5_Witness ==
    /\ direct.called
    /\ direct.page.isNone
    /\ direct.renders
    /\ ~direct.response.raised
    /\ ~direct.outcome.raised
    /\ Contains(direct.outcome.value["summary"], <<"Error processing page">>)

\* the largest number of keywords a PageAnalysis is documented to hold
MaxKeywords == 3

\* C6: every PageAnalysis _process_page returns has at most 3 keywords.
C6_AtMostThreeKeywords ==
    \A c \in ProcessPageCalls :
        ~c.raised => Len(c.analysis["keywords"]) <= MaxKeywords

\* a convert call past the point where the path exists, the client is
\* created and the file has opened as a PDF
Extracting ==
    /\ file.exists
    /\ file.kind = "pdf"
    /\ client
    /\ fileOpens = 1

\* C7: once the path exists, the file has opened as a PDF and the client is
\* created, no failure of rendering, of a service call or of parsing makes
\* convert raise: the call goes on, page by page, and returns a complete
\* record.
C7_RecoverableNeverAbort ==
    Extracting =>
        /\ pc \in {"pages", "summarize", "returned"}
        /\ error = NoError
        /\ pc # "returned" =>
              ENABLED (SkipPage \/ ProcessPage \/ CloseDocument \/ GenerateFinalSummary)
        /\ pc = "returned" =>
              /\ result.returned
              /\ ComputedKeys \subseteq DOMAIN result.metadata
              /\ Len(served) = Len(doc.pages)
              /\ summarizeCalls = 1

\* C7's case: a call has returned although one page did not render, the
\* service call of another failed and the final summary failed
C7_Witness ==
    /\ pc = "returned"
    /\ result.returned
    /\ \E i \in 1..Len(served) : served[i].called /\ ~served[i].renders
    /\ \E i \in 1..Len(served) :
          served[i].called /\ served[i].renders /\ served[i].response.raised
    /\ summarizeCalls = 1
    /\ final_summary = EmptySummary

\* a raw text with nothing but whitespace in it
AllWhitespace(raw) == \A i \in 1..Len(raw) : raw[i] \in Whitespace

\* the numbers of the pages among the first n that have text, ascending
RECURSIVE NonBlankUpTo(_)
NonBlankUpTo(n) ==
    IF n = 0 THEN <<>>
    ELSE IF AllWhitespace(doc.pages[n]) THEN NonBlankUpTo(n - 1)
    ELSE Append(NonBlankUpTo(n - 1), n)

\* C8: the returned content is the converted texts of the pages with text,
\* in increasing page number, joined by a blank line (a degraded page gives
\* an empty section); the summary line of each such page starts with its
\* 1-based number in the file, blank pages counted; the lines, in that
\* order, are what the summary request carries.
C8_PageOrder ==
    pc = "returned" =>
        LET nb == NonBlankUpTo(Len(doc.pages))
            texts == [j \in 1..Len(nb) |-> served[nb[j]].analysis["markdown_text"]]
            lines == [j \in 1..Len(nb) |->
                        <<"Page ", Digits[nb[j] + 1], " Summary: ">>
                           \o served[nb[j]].analysis["summary"]]
        IN /\ \A j \in 1..Len(nb) : served[nb[j]].called
           /\ result.page_content = Join(<<"\n\n">>, texts)
           /\ page_summaries = lines
           /\ Len(request) = 1
           /\ request[1].page_summaries = Join(<<"\n\n">>, lines)

\* C8's case: a blank first page, then a page with text: the content is
\* the second page's text and its summary line is numbered 2
C8_Witness ==
    /\ pc = "returned"
    /\ Len(doc.pages) = 2
    /\ AllWhitespace(doc.pages[1])
    /\ served[2].called
    /\ served[2].analysis["markdown_text"] = <<"B">>
    /\ result.page_content = <<"B">>
    /\ page_summaries = << <<"Page ", "2", " Summary: ", "sb">> >>

\* the loop of _extract_text is about to take a page without text
AtBlankPage ==
    /\ pc = "pages"
    /\ page_num < Len(doc.pages)
    /\ AllWhitespace(doc.pages[page_num + 1])

\* C9: a page whose raw text is empty or whitespace only is skipped: the
\* step that takes it makes no analyze call and leaves the sections, the
\* summary lines and the keyword set as they were; so the keywords sent
\* with the summary request come from the pages with text alone.
C9_BlankPageSkipped ==
    /\ [][AtBlankPage =>
            /\ page_num' = page_num + 1
            /\ analyzeCalls' = analyzeCalls
            /\ UNCHANGED <<markdown_sections, page_summaries, all_keywords>>]_vars
    /\ [](pc = "returned" =>
            /\ analyzeCalls = Len(NonBlankUpTo(Len(doc.pages)))
            /\ Len(markdown_sections) = analyzeCalls
            /\ request[1].all_keywords =
                  UNION {Elems(served[i].analysis["keywords"]) :
                            i \in Elems(NonBlankUpTo(Len(doc.pages)))})

\* C9's case: a whitespace-only second page was skipped after a first page
\* with text, and the call returned with the first page's results alone
C9_Witness ==
    /\ pc = "returned"
    /\ Len(doc.pages) = 2
    /\ doc.pages[2] = <<" ", "\n">>
    /\ served[1].called
    /\ ~served[2].called
    /\ analyzeCalls = 1
    /\ result.page_content = <<"# A">>
    /\ request[1].all_keywords = {"k1", "k2"}

\* C10: without the credential, convert on an existing file fails with the
\* configuration error, before any service call and before the file is read
\* for hashing or opened for page iteration.
C10_ConfigurationErrorFirst ==
    (pc = "raised" /\ file.exists /\ ~credential) =>
        /\ error.type = "OpenAIError"
        /\ analyzeCalls = 0
        /\ summarizeCalls = 0
        /\ fileReads = 0
        /\ fileOpens = 0

\* the message of the first exception raised inside convert's try block,
\* read off the arguments and the environment of the call
C11_Cause ==
    CASE file.kind = "unreadable" -> <<"Permission denied">>
      [] file.kind # "unreadable" /\ ~credential ->
            <<"The api_key client option must be set">>
      [] file.kind = "garbage" /\ credential -> <<"Failed to open file">>
      [] OTHER -> <<>>

\* C11: a convert call ends either with a complete Document and no error, or
\* with an error and no Document; the error is the not-found error exactly
\* when the file does not exist, and otherwise it is the one generic
\* ValueError whose message is "Error processing PDF: " followed by the
\* message of the exception raised in the try block, never that exception
\* itself; before the call ends the caller sees neither.
C11_CompleteOrFatal ==
    /\ pc = "returned" =>
          /\ result.returned
          /\ error = NoError
          /\ ComputedKeys \subseteq DOMAIN result.metadata
    /\ pc = "raised" =>
          /\ result = NoResult
          /\ error.type \in {"FileNotFoundError", "ValueError"}
          /\ error.type = "FileNotFoundError" <=> ~file.exists
          /\ file.exists =>
                /\ C11_Cause # <<>>
                /\ error.msg = <<"Error processing PDF: ">> \o C11_Cause
    /\ pc \notin {"returned", "raised"} =>
          /\ result = NoResult
          /\ error = NoError

\* a file that is not a PDF made fitz.open raise, and convert raised the
\* generic error carrying that message
C11_Witness ==
    /\ pc = "raised"
    /\ file.kind = "garbage"
    /\ credential
    /\ fileOpens = 1
    /\ error = [type |-> "ValueError",
                msg |-> <<"Error processing PDF: ", "Failed to open file">>]

\* a summary call in which the service call or the parsing of the response
\* fails, stated on the service's answer
SummaryFails(response) ==
    \/ response.raised
    \/ response.value.shape # "dict"
    \/ \E k \in {"summary", "keywords"} : k \notin DOMAIN response.value.dict

\* _generate_final_summary called on its own did not raise, and returned the
\* empty DocumentSummary if the call or the parsing failed
C12_NeverRaises ==
    direct_summary.called =>
        /\ ~direct_summary.outcome.raised
        /\ SummaryFails(direct_summary.response) =>
              /\ direct_summary.outcome.value["summary"] = <<>>
              /\ direct_summary.outcome.value["keywords"] = <<>>

\* convert returned after _generate_final_summary gave the empty summary
C12_Degraded ==
    /\ pc = "returned"
    /\ summarizeCalls = 1
    /\ final_summary["summary"] = <<>>
    /\ final_summary["keywords"] = <<>>

\* C12, as claimed: _generate_final_summary never raises and returns the
\* empty DocumentSummary on failure, and the record convert then returns has
\* document_summary '' and keywords [], whatever the caller's metadata.
C12_DegradedRecordEmpty ==
    /\ C12_NeverRaises
    /\ C12_Degraded =>
          /\ result.metadata["document_summary"] = <<>>
          /\ result.metadata["keywords"] = <<>>

\* C12, amended: _generate_final_summary never raises and returns the empty
\* DocumentSummary on failure; the record convert then returns has
\* document_summary '' and keywords [] unless the caller's metadata names
\* the key, and then it has the caller's value; and the step that asks for
\* the summary always returns, with the content joined from the sections
\* collected before it, so the content does not depend on the answer.
C12_DegradedRecordEmptyUnlessCaller ==
    /\ [](/\ C12_NeverRaises
          /\ C12_Degraded =>
                \A k \in {"document_summary", "keywords"} :
                    result.metadata[k] =
                       IF k \in DOMAIN metadata.map THEN metadata.map[k]
                                                    ELSE <<>>)
    /\ [][pc = "summarize" =>
             /\ pc' = "returned"
             /\ result'.returned
             /\ result'.page_content = Join(<<"\n\n">>, markdown_sections)
             /\ markdown_sections' = markdown_sections]_vars

\* C12's case: a page was analyzed, the summary came back empty, the caller
\* named neither key, and the record has the page's text with an empty
\* summary and no keywords
C12_Witness ==
    /\ C12_Degraded
    /\ analyzeCalls = 1
    /\ DOMAIN metadata.map = {}
    /\ result.page_content = <<"# A">>
    /\ result.metadata["document_summary"] = <<>>
    /\ result.metadata["keywords"] = <<>>

\* what the calls made so far in an extraction must be: one analyze call
\* for each of the pages iterated that has text and none for the others,
\* each with at most one request to the service, and no summarize call
\* before the last page is done and the document closed
C13_CallsSoFar ==
    Extracting =>
        /\ Len(served) = page_num
        /\ \A i \in 1..page_num :
              /\ served[i].called <=> ~AllWhitespace(doc.pages[i])
              /\ (served[i].response # NotAsked) <=>
                    (served[i].called /\ served[i].renders)
        /\ analyzeCalls = Len(NonBlankUpTo(page_num))
        /\ Len(request) = summarizeCalls
        /\ summarizeCalls = IF pc = "returned" THEN 1 ELSE 0
        /\ pc \in {"summarize", "returned"} =>
              /\ ~doc.open
              /\ page_num = Len(doc.pages)
        /\ (pc = "returned" /\ analyzeCalls = 0) =>
              /\ request[1].page_summaries = <<>>
              /\ request[1].all_keywords = {}

\* C13: in a conversion whose document opened, the pages are taken one at a
\* time in file order, each page with text gets exactly one analyze call,
\* made while the document is open and before any summarize call, and a
\* blank page gets none; the one summarize call is made after the last page
\* and after the document is closed, also when no page was analyzed, and
\* then with an empty summaries text and an empty keyword set.
C13_CallOrder ==
    /\ []C13_CallsSoFar
    /\ [][/\ (pc = "pages" /\ page_num' # page_num) =>
                /\ page_num' = page_num + 1
                /\ Len(served') = Len(served) + 1
                /\ doc.open
                /\ summarizeCalls = 0 /\ summarizeCalls' = 0
                /\ analyzeCalls' =
                      IF AllWhitespace(doc.pages[page_num'])
                        THEN analyzeCalls ELSE analyzeCalls + 1
          /\ (pc = "pages" /\ page_num' = page_num) =>
                analyzeCalls' = analyzeCalls
          /\ (pc = "summarize") =>
                /\ summarizeCalls' = summarizeCalls + 1
                /\ ~doc.open
                /\ page_num = Len(doc.pages)
                /\ analyzeCalls' = analyzeCalls
                /\ request' = <<[page_summaries |-> Join(<<"\n\n">>, page_summaries),
                                 all_keywords |-> all_keywords]>>
                /\ pc' = "returned"]_vars

\* C13's case: two pages, both blank: no analyze call, the document is
\* closed, and the one summarize call was made with nothing to summarize
C13_Witness ==
    /\ pc = "returned"
    /\ Len(doc.pages) = 2
    /\ \A i \in 1..2 : AllWhitespace(doc.pages[i])
    /\ ~doc.open
    /\ analyzeCalls = 0
    /\ summarizeCalls = 1
    /\ request = <<[page_summaries |-> <<>>, all_keywords |-> {}]>>

====
